---- MODULE Spec2Model ----
(***************************************************************************)
(* Occurrence expansion and conflict detection of the weekly calendar      *)
(* server (server/src/services/eventService.ts, the user-owned variant of  *)
(* the request layer in server/src/controllers/eventController.ts, and the *)
(* helpers of server/src/utils/recurrenceUtils.ts and dateUtils.ts).       *)
(*                                                                         *)
(* Time.  An instant is an integer number of ticks (the milliseconds of a  *)
(* JavaScript Date, scaled down): MsPerSec ticks make one second and       *)
(* SecsPerDay seconds one day.  Tick 0 is a Sunday, 00:00:00.000.  The     *)
(* server process runs in UTC (node:20-alpine sets no TZ), so the local    *)
(* calendar fields read by getHours, getDate, getDay, isSameDay and        *)
(* startOfDay are the UTC ones and setDate(getDate() + 1) adds exactly one *)
(* day.                                                                    *)
(***************************************************************************)
EXTENDS Integers, Sequences, FiniteSets, TLC

VARIABLES events, exceptions, pending, nextId, call

vars == <<events, exceptions, pending, nextId, call>>

(***************************************************************************)
(* Scale of the model                                                      *)
(***************************************************************************)
MsPerSec == 2
SecsPerDay == 2
DayLen == SecsPerDay * MsPerSec
DaysPerWeek == 7
\* the 365 days of lookback and lookahead of the scan, scaled down
ScanPadDays == 2
\* absent value of a nullable DATETIME column or of an optional Date
Null == -1

Users == {"u1", "u2"}

(***************************************************************************)
(* Date arithmetic (date-fns and Date methods, in UTC)                     *)
(***************************************************************************)
DayOf(t) == t \div DayLen

startOfDay(t) == DayOf(t) * DayLen

isSameDay(a, b) == DayOf(a) = DayOf(b)

\* 0 = Sunday ... 6 = Saturday
getDay(t) == DayOf(t) % DaysPerWeek

\* getHours(), getMinutes(), getSeconds() of t: the time of day in whole
\* seconds; the millisecond field is not read
HoursMinutesSeconds(t) == ((t % DayLen) \div MsPerSec) * MsPerSec

\* new Date(d).setHours(h, m, s, 0): the day of d at the given time of day
setHours(d, hms) == startOfDay(d) + hms

addDays(t, n) == t + n * DayLen

(***************************************************************************)
(* recurrenceUtils.eventsConflict and dateUtils.doTimeRangesOverlap        *)
(***************************************************************************)
\* a slip in the comparisons: intervals that share an end point conflict
eventsConflictInclusive(event1Start, event1End, event2Start, event2End) ==
    \/ (event1Start >= event2Start /\ event1Start <= event2End)
    \/ (event1End >= event2Start /\ event1End <= event2End)
    \/ (event2Start >= event1Start /\ event2Start <= event1End)
    \/ (event2End >= event1Start /\ event2End <= event1End)

eventsConflict(event1Start, event1End, event2Start, event2End) ==
    \/ (event1Start >= event2Start /\ event1Start < event2End)
    \/ (event1End > event2Start /\ event1End <= event2End)
    \/ (event2Start >= event1Start /\ event2Start < event1End)
    \/ (event2End > event1Start /\ event2End <= event1End)

doTimeRangesOverlap(start1, end1, start2, end2) ==
    start1 < end2 /\ start2 < end1

(***************************************************************************)
(* The stored rows.  events and exceptions are the two tables, each a      *)
(* sequence of rows in insertion order, which is the order findMany and    *)
(* the exceptions join return them in.                                     *)
(***************************************************************************)
\* event.exceptions of the include: {exceptions: true} join
ExceptionsOf(eventId) == SelectSeq(exceptions, LAMBDA x : x.eventId = eventId)

\* a slip in the weekday test: an empty weekday list read as every weekday
recurrenceDaysIncludesOrEmpty(event, day) ==
    event.recurrenceDays = {} \/ day \in event.recurrenceDays

\* event.recurrenceDays && event.recurrenceDays.split(',').map(Number).includes(day)
\* (the stored string is '' for an empty list, which is falsy)
recurrenceDaysIncludes(event, day) ==
    event.recurrenceDays # {} /\ day \in event.recurrenceDays

\* event.exceptions.find((ex) => isSameDay(ex.exceptionDate, occurrenceDate)):
\* the index of the first match, 0 when there is none
FindException(excs, occurrenceDate) ==
    LET hits == {i \in 1..Len(excs) : isSameDay(excs[i].exceptionDate, occurrenceDate)}
    IN  IF hits = {} THEN 0 ELSE CHOOSE i \in hits : \A j \in hits : i <= j

\* a slip in the end instant: the event's end time of day put on the day of
\* the occurrence, instead of the start plus the duration
OccurrenceEndDateByClock(event, occurrenceDate) ==
    startOfDay(occurrenceDate) + HoursMinutesSeconds(event.endTime)

\* occurrenceEndDate = new Date(occurrenceDate.getTime() + durationMs)
OccurrenceEndDate(event, occurrenceDate) ==
    occurrenceDate + (event.endTime - event.startTime)

\* occurrenceDate = new Date(currentDate); setHours(startHour, startMinute, startSecond, 0)
OccurrenceDate(event, currentDate) ==
    setHours(currentDate, HoursMinutesSeconds(event.startTime))

\* the occurrence pushed for a day without exception
RegularOccurrence(event, occurrenceDate) ==
    [id |-> <<event.id, occurrenceDate>>,
     originalEventId |-> event.id,
     startTime |-> occurrenceDate,
     endTime |-> OccurrenceEndDate(event, occurrenceDate),
     isRecurring |-> TRUE,
     isException |-> FALSE,
     exceptionId |-> Null,
     userId |-> event.userId]

\* the occurrence pushed for a day with a non-deleted exception
ModifiedOccurrence(event, occurrenceDate, exception) ==
    [id |-> <<event.id, occurrenceDate>>,
     originalEventId |-> event.id,
     startTime |-> exception.newStartTime,
     endTime |-> exception.newEndTime,
     isRecurring |-> TRUE,
     isException |-> TRUE,
     exceptionId |-> exception.id,
     userId |-> event.userId]

\* shouldInclude of one loop iteration
shouldInclude(event, currentDate) ==
    \/ event.recurrenceType = "DAILY"
    \/ /\ event.recurrenceType = "WEEKLY"
       /\ recurrenceDaysIncludes(event, getDay(currentDate))

\* a slip in the branch of an exception without new times: the rule-computed
\* occurrence is pushed instead of nothing
LoopBodyFallsBack(event, excs, startDate, endDate, currentDate) ==
    LET occurrenceDate == OccurrenceDate(event, currentDate)
        x == FindException(excs, occurrenceDate)
    IN  IF ~shouldInclude(event, currentDate) THEN <<>>
        ELSE IF ~(occurrenceDate >= startDate /\ occurrenceDate <= endDate) THEN <<>>
        ELSE IF x = 0 THEN <<RegularOccurrence(event, occurrenceDate)>>
        ELSE IF excs[x].isDeleted THEN <<>>
        ELSE IF excs[x].newStartTime # Null /\ excs[x].newEndTime # Null
             THEN <<ModifiedOccurrence(event, occurrenceDate, excs[x])>>
        ELSE <<RegularOccurrence(event, occurrenceDate)>>

\* a slip in the order of the tests: the window test made on the start the
\* occurrence is returned with, after the exception is applied
LoopBodyWindowAfter(event, excs, startDate, endDate, currentDate) ==
    LET occurrenceDate == OccurrenceDate(event, currentDate)
        x == FindException(excs, occurrenceDate)
        Within(t) == t >= startDate /\ t <= endDate
    IN  IF ~shouldInclude(event, currentDate) THEN <<>>
        ELSE IF x = 0
        THEN IF Within(occurrenceDate)
             THEN <<RegularOccurrence(event, occurrenceDate)>> ELSE <<>>
        ELSE IF excs[x].isDeleted THEN <<>>
        ELSE IF excs[x].newStartTime # Null /\ excs[x].newEndTime # Null
                /\ Within(excs[x].newStartTime)
             THEN <<ModifiedOccurrence(event, occurrenceDate, excs[x])>>
        ELSE <<>>

\* what one iteration of the while loop pushes: a sequence of 0 or 1 occurrences
LoopBody(event, excs, startDate, endDate, currentDate) ==
    LET occurrenceDate == OccurrenceDate(event, currentDate)
        x == FindException(excs, occurrenceDate)
    IN  IF ~shouldInclude(event, currentDate) THEN <<>>
        ELSE IF ~(occurrenceDate >= startDate /\ occurrenceDate <= endDate) THEN <<>>
        ELSE IF x = 0 THEN <<RegularOccurrence(event, occurrenceDate)>>
        ELSE IF excs[x].isDeleted THEN <<>>
        ELSE IF excs[x].newStartTime # Null /\ excs[x].newEndTime # Null
             THEN <<ModifiedOccurrence(event, occurrenceDate, excs[x])>>
        ELSE <<>>

\* a slip in the step of the scan: half a day instead of a day
NextDateHalfDay(currentDate) == currentDate + DayLen \div 2

\* currentDate.setDate(currentDate.getDate() + 1)
NextDate(currentDate) == addDays(currentDate, 1)

\* the while (currentDate <= maxEndDate) loop
RECURSIVE ScanLoop(_, _, _, _, _, _)
ScanLoop(event, excs, startDate, endDate, currentDate, maxEndDate) ==
    IF currentDate > maxEndDate THEN <<>>
    ELSE LoopBody(event, excs, startDate, endDate, currentDate)
         \o ScanLoop(event, excs, startDate, endDate, NextDate(currentDate), maxEndDate)

\* a slip in the first day of the scan: the lookback date whatever the start
\* of the event
FirstDateIgnoringStart(event, startDate) == addDays(startDate, 0 - ScanPadDays)

\* checkFromDate: startDate moved back by the lookback; the scan starts at
\* the later of it and event.startTime
FirstDate(event, startDate) ==
    LET checkFromDate == addDays(startDate, 0 - ScanPadDays)
    IN  IF event.startTime < checkFromDate THEN checkFromDate ELSE event.startTime

MaxEndDate(endDate) == addDays(endDate, ScanPadDays)

generateRecurringEventOccurrences(event, excs, startDate, endDate) ==
    IF event.recurrenceType = "NONE" \/ ~event.isRecurring THEN <<>>
    ELSE ScanLoop(event, excs, startDate, endDate,
                  FirstDate(event, startDate), MaxEndDate(endDate))

mapToEventOccurrence(event) ==
    [id |-> <<event.id>>,
     originalEventId |-> event.id,
     startTime |-> event.startTime,
     endTime |-> event.endTime,
     isRecurring |-> event.isRecurring,
     isException |-> FALSE,
     exceptionId |-> Null,
     userId |-> event.userId]

\* the where clause of getEventsByDateRange; userId = "any" stands for null
RangeWhere(event, userId, startDate, endDate) ==
    /\ \/ (~event.isRecurring /\ event.startTime <= endDate /\ event.endTime >= startDate)
       \/ event.isRecurring
    /\ (userId # "any" => event.userId = userId)

\* the non-recurring branch of the loop over the events found
NonRecurringInRange(event, startDate, endDate) ==
    event.startTime >= startDate /\ event.startTime <= endDate

\* what the loop of getEventsByDateRange pushes for one event found
OccurrencesOfEvent(event, startDate, endDate) ==
    IF ~event.isRecurring
    THEN IF NonRecurringInRange(event, startDate, endDate)
         THEN <<mapToEventOccurrence(event)>> ELSE <<>>
    ELSE generateRecurringEventOccurrences(event, ExceptionsOf(event.id), startDate, endDate)

RECURSIVE RangeLoop(_, _, _, _)
RangeLoop(found, i, startDate, endDate) ==
    IF i > Len(found) THEN <<>>
    ELSE OccurrencesOfEvent(found[i], startDate, endDate)
         \o RangeLoop(found, i + 1, startDate, endDate)

getEventsByDateRange(userId, startDate, endDate) ==
    RangeLoop(SelectSeq(events, LAMBDA e : RangeWhere(e, userId, startDate, endDate)),
              1, startDate, endDate)

(***************************************************************************)
(* EventService.checkEventConflicts                                        *)
(***************************************************************************)
\* the where clause; excludeEventId = 0 stands for an absent argument
ConflictWhere(event, userId, startTime, endTime, excludeEventId) ==
    /\ event.userId = userId
    /\ (excludeEventId # 0 => event.id # excludeEventId)
    /\ \/ (~event.isRecurring /\ event.startTime < endTime /\ event.endTime > startTime)
       \/ event.isRecurring

\* the window the recurring events are expanded over: one day around the candidate
ConflictWindowStart(startTime) == startTime - DayLen

ConflictWindowEnd(endTime) == endTime + DayLen

\* the body of the loop over the events found: does this event conflict
EventConflicts(event, startTime, endTime) ==
    IF ~event.isRecurring
    THEN eventsConflict(startTime, endTime, event.startTime, event.endTime)
    ELSE LET occurrences == generateRecurringEventOccurrences(
                                event, ExceptionsOf(event.id),
                                ConflictWindowStart(startTime), ConflictWindowEnd(endTime))
         IN  \E i \in 1..Len(occurrences) :
                 eventsConflict(startTime, endTime,
                                occurrences[i].startTime, occurrences[i].endTime)

checkEventConflicts(userId, startTime, endTime, excludeEventId) ==
    \E i \in 1..Len(events) :
        /\ ConflictWhere(events[i], userId, startTime, endTime, excludeEventId)
        /\ EventConflicts(events[i], startTime, endTime)

(***************************************************************************)
(* Calls of the query functions on a given store.  The store is drawn in   *)
(* the initial state, the call is an action, and call records the          *)
(* arguments with the value returned.                                      *)
(***************************************************************************)
NoCall == [op |-> "none"]

\* isRecurring, recurrenceType, recurrenceDays as a create request can set them
RecurrenceInputs ==
    {[isRecurring |-> FALSE, recurrenceType |-> "null", recurrenceDays |-> {}],
     [isRecurring |-> TRUE, recurrenceType |-> "NONE", recurrenceDays |-> {}],
     [isRecurring |-> TRUE, recurrenceType |-> "null", recurrenceDays |-> {}],
     [isRecurring |-> TRUE, recurrenceType |-> "DAILY", recurrenceDays |-> {}],
     [isRecurring |-> TRUE, recurrenceType |-> "WEEKLY", recurrenceDays |-> {}],
     [isRecurring |-> TRUE, recurrenceType |-> "WEEKLY", recurrenceDays |-> {1}],
     [isRecurring |-> TRUE, recurrenceType |-> "WEEKLY", recurrenceDays |-> {2, 4}]}

EventRow(id, userId, startTime, endTime, r) ==
    [id |-> id, userId |-> userId, startTime |-> startTime, endTime |-> endTime,
     isRecurring |-> r.isRecurring, recurrenceType |-> r.recurrenceType,
     recurrenceDays |-> r.recurrenceDays]

ExceptionRow(id, eventId, exceptionDate, isDeleted, newStartTime, newEndTime) ==
    [id |-> id, eventId |-> eventId, exceptionDate |-> exceptionDate,
     isDeleted |-> isDeleted, newStartTime |-> newStartTime, newEndTime |-> newEndTime]

\* the event under expansion starts on day 1 (a Monday), at any tick of the day
GenStarts == DayLen..(2 * DayLen - 1)

GenDurations == {1, 2 * DayLen}

GenEvents ==
    {EventRow(1, "u1", s, s + d, r) : s \in GenStarts, d \in GenDurations, r \in RecurrenceInputs}

OneTime == [isRecurring |-> FALSE, recurrenceType |-> "null", recurrenceDays |-> {}]

\* an optional second row, a one-time event of the same or of another user
GenOthers ==
    {<<>>} \cup {<<EventRow(2, u, 2 * DayLen, 2 * DayLen + 1, OneTime)>> : u \in Users}

\* exceptions of event 1: two instants of day 2, deleted or moved
GenExceptionDates == {2 * DayLen, 2 * DayLen + 1}

GenMoves == {<<0, 1>>, <<2 * DayLen + 1, 2 * DayLen + MsPerSec + 1>>}

GenExceptionInputs ==
    {[exceptionDate |-> d, isDeleted |-> TRUE, newStartTime |-> Null, newEndTime |-> Null] :
        d \in GenExceptionDates}
    \cup {[exceptionDate |-> d, isDeleted |-> FALSE, newStartTime |-> m[1], newEndTime |-> m[2]] :
        d \in GenExceptionDates, m \in GenMoves}

MaxExceptions == 2

\* the sequences of exception rows: unique per (eventId, exceptionDate), as
\* the unique index demands
GenExceptionPairs ==
    {p \in GenExceptionInputs \X GenExceptionInputs :
        p[1].exceptionDate # p[2].exceptionDate /\ MaxExceptions >= 2}

GenExceptionSeqs ==
    {<<>>}
    \cup {<<ExceptionRow(1, 1, a.exceptionDate, a.isDeleted, a.newStartTime, a.newEndTime)>> :
            a \in GenExceptionInputs}
    \cup {<<ExceptionRow(1, 1, p[1].exceptionDate, p[1].isDeleted, p[1].newStartTime, p[1].newEndTime),
            ExceptionRow(2, 1, p[2].exceptionDate, p[2].isDeleted, p[2].newStartTime, p[2].newEndTime)>> :
            p \in GenExceptionPairs}

\* the windows asked for
GenWindowStarts == 0..(5 * DayLen - 1)

GenWindowLengths == {0, 1, DayLen, 2 * DayLen + 1, DaysPerWeek * DayLen}

(***************************************************************************)
(* createEvent: EventController.createEvent (user variant) and             *)
(* EventService.createEvent                                                *)
(***************************************************************************)
\* the checks of the controller before the service is called
CreateInvalid(req) ==
    \/ req.endTime <= req.startTime
    \/ (req.isRecurring /\ req.recurrenceType = "WEEKLY" /\ req.recurrenceDays = {})

\* the conflict check at the head of EventService.createEvent
CreateConflicts(req) == checkEventConflicts(req.userId, req.startTime, req.endTime, 0)

\* the status the request ends with if nothing else is in flight
CreateStatus(req) ==
    IF CreateInvalid(req) THEN "400"
    ELSE IF CreateConflicts(req) THEN "500"
    ELSE "201"

\* the row prisma.event.create inserts
CreatedRow(id, req) ==
    EventRow(id, req.userId, req.startTime, req.endTime,
             [isRecurring |-> req.isRecurring, recurrenceType |-> req.recurrenceType,
              recurrenceDays |-> req.recurrenceDays])

\* the candidates of the calls
CallStarts == 0..(3 * DayLen)

CallLengths == {1, DayLen - 1, DayLen + 1}

CallRecurrences ==
    {OneTime,
     [isRecurring |-> TRUE, recurrenceType |-> "DAILY", recurrenceDays |-> {}],
     [isRecurring |-> TRUE, recurrenceType |-> "WEEKLY", recurrenceDays |-> {}]}

CallRequests ==
    {[userId |-> "u1", startTime |-> s, endTime |-> s + n,
      isRecurring |-> r.isRecurring, recurrenceType |-> r.recurrenceType,
      recurrenceDays |-> r.recurrenceDays] :
        s \in CallStarts, n \in CallLengths \cup {0}, r \in CallRecurrences}

GenInit ==
    /\ \E e \in GenEvents, o \in GenOthers : events = <<e>> \o o
    /\ exceptions \in GenExceptionSeqs
    /\ pending = <<>>
    /\ nextId = Len(events) + Len(exceptions) + 1
    /\ call = NoCall

GetEventsByDateRange ==
    /\ call = NoCall
    /\ \E userId \in {"any", "u1"}, startDate \in GenWindowStarts, n \in GenWindowLengths :
           call' = [op |-> "getEventsByDateRange", userId |-> userId,
                    startDate |-> startDate, endDate |-> startDate + n,
                    ret |-> getEventsByDateRange(userId, startDate, startDate + n)]
    /\ UNCHANGED <<events, exceptions, pending, nextId>>

CheckEventConflicts ==
    /\ call = NoCall
    /\ \E userId \in Users, startTime \in CallStarts, n \in CallLengths, x \in 0..2 :
           call' = [op |-> "checkEventConflicts", userId |-> userId,
                    startTime |-> startTime, endTime |-> startTime + n,
                    excludeEventId |-> x,
                    ret |-> checkEventConflicts(userId, startTime, startTime + n, x)]
    /\ UNCHANGED <<events, exceptions, pending, nextId>>

\* one createEvent request handled from end to end, nothing else in flight
CreateEvent ==
    /\ call = NoCall
    /\ \E req \in CallRequests :
        /\ call' = [op |-> "createEvent", req |-> req, status |-> CreateStatus(req)]
        /\ IF CreateStatus(req) = "201"
           THEN /\ events' = Append(events, CreatedRow(nextId, req))
                /\ nextId' = nextId + 1
           ELSE UNCHANGED <<events, nextId>>
    /\ UNCHANGED <<exceptions, pending>>

\* eventsConflict and doTimeRangesOverlap on four instants
MaxInstant == 3

EventsConflict ==
    /\ call = NoCall
    /\ \E a, b, c, d \in 0..MaxInstant :
           call' = [op |-> "eventsConflict", event1Start |-> a, event1End |-> b,
                    event2Start |-> c, event2End |-> d,
                    ret |-> eventsConflict(a, b, c, d),
                    overlap |-> doTimeRangesOverlap(a, b, c, d)]
    /\ UNCHANGED <<events, exceptions, pending, nextId>>

PairInit ==
    /\ events = <<>>
    /\ exceptions = <<>>
    /\ pending = <<>>
    /\ nextId = 1
    /\ call = NoCall

PairSpec == PairInit /\ [][EventsConflict]_vars

(***************************************************************************)
(* The request handlers against the two tables.  A handler is split where  *)
(* it awaits the database between its reads and its write: the first step  *)
(* (its name ends in Begin) makes the checks and the reads, and leaves the *)
(* request in pending when they pass; the second (Commit) is the write.    *)
(* Other requests may run between the two.  call holds the last response.  *)
(***************************************************************************)
RemoveAt(seq, i) == SubSeq(seq, 1, i - 1) \o SubSeq(seq, i + 1, Len(seq))

Response(op, status) == [op |-> op, status |-> status]

\* prisma.event.findUnique: the index of the row, 0 when there is none
getEventById(id) ==
    IF \E i \in 1..Len(events) : events[i].id = id
    THEN CHOOSE i \in 1..Len(events) : events[i].id = id
    ELSE 0

\* EventService.isValidEventOccurrence
isValidEventOccurrence(event, date) ==
    IF ~event.isRecurring \/ event.recurrenceType = "NONE"
    THEN isSameDay(event.startTime, date)
    ELSE IF event.recurrenceType = "DAILY"
    THEN date >= startOfDay(event.startTime)
    ELSE IF event.recurrenceType = "WEEKLY"
    THEN /\ recurrenceDaysIncludes(event, getDay(date))
         /\ date >= startOfDay(event.startTime)
    ELSE FALSE

\* ---- createEvent
\* a slip in the order of the calls: the row is created before the conflict
\* check throws
CreateEventBeginInsertsFirst(req) ==
    /\ IF CreateStatus(req) = "201"
       THEN /\ pending' = Append(pending, [op |-> "createEvent", req |-> req])
            /\ UNCHANGED call
       ELSE /\ call' = Response("createEvent", CreateStatus(req))
            /\ UNCHANGED pending
    /\ IF CreateStatus(req) = "500"
       THEN /\ events' = Append(events, CreatedRow(nextId, req))
            /\ nextId' = nextId + 1
       ELSE UNCHANGED <<events, nextId>>
    /\ UNCHANGED exceptions

\* the controller and the service up to the conflict check
CreateEventBegin(req) ==
    /\ IF CreateStatus(req) = "201"
       THEN /\ pending' = Append(pending, [op |-> "createEvent", req |-> req])
            /\ UNCHANGED call
       ELSE /\ call' = Response("createEvent", CreateStatus(req))
            /\ UNCHANGED pending
    /\ UNCHANGED <<events, exceptions, nextId>>

\* a commit that checks the conflicts again, as a transaction around the
\* check and the insert would
CreateCommitRechecked(req) == ~CreateConflicts(req)

\* prisma.event.create of a request whose check has passed: nothing is
\* checked again
CreateCommitInserts(req) == TRUE

CreateEventCommit(i) ==
    /\ pending[i].op = "createEvent"
    /\ pending' = RemoveAt(pending, i)
    /\ IF CreateCommitInserts(pending[i].req)
       THEN /\ events' = Append(events, CreatedRow(nextId, pending[i].req))
            /\ nextId' = nextId + 1
            /\ call' = Response("createEvent", "201")
       ELSE /\ call' = Response("createEvent", "500")
            /\ UNCHANGED <<events, nextId>>
    /\ UNCHANGED exceptions

\* ---- updateEvent.  In a request a time is Null when the body does not
\* carry it; hasRecurring, hasType and hasDays say which of isRecurring,
\* recurrenceType and recurrenceDays it carries.
UpdateInvalid(req) ==
    \/ (req.startTime # Null /\ req.endTime # Null /\ req.endTime <= req.startTime)
    \/ (req.hasRecurring /\ req.isRecurring /\ req.hasType /\ req.recurrenceType = "WEEKLY"
        /\ req.hasDays /\ req.recurrenceDays = {})

\* startTime and endTime the conflict check of updateEvent is made with
UpdateStart(existingEvent, req) ==
    IF req.startTime # Null THEN req.startTime ELSE existingEvent.startTime

UpdateEnd(existingEvent, req) ==
    IF req.endTime # Null THEN req.endTime ELSE existingEvent.endTime

UpdateConflicts(existingEvent, req) ==
    /\ (req.startTime # Null \/ req.endTime # Null)
    /\ checkEventConflicts(existingEvent.userId, UpdateStart(existingEvent, req),
                           UpdateEnd(existingEvent, req), req.id)

UpdateStatus(req) ==
    IF getEventById(req.id) = 0 THEN "404"
    ELSE IF UpdateInvalid(req) THEN "400"
    ELSE IF UpdateConflicts(events[getEventById(req.id)], req) THEN "500"
    ELSE "200"

UpdateEventBegin(req) ==
    /\ IF UpdateStatus(req) = "200"
       THEN /\ pending' = Append(pending, [op |-> "updateEvent", req |-> req])
            /\ UNCHANGED call
       ELSE /\ call' = Response("updateEvent", UpdateStatus(req))
            /\ UNCHANGED pending
    /\ UNCHANGED <<events, exceptions, nextId>>

\* prisma.event.update with the fields the request carries
UpdatedRow(row, req) ==
    [row EXCEPT
        !.startTime = IF req.startTime # Null THEN req.startTime ELSE @,
        !.endTime = IF req.endTime # Null THEN req.endTime ELSE @,
        !.isRecurring = IF req.hasRecurring THEN req.isRecurring ELSE @,
        !.recurrenceType = IF req.hasType THEN req.recurrenceType ELSE @,
        !.recurrenceDays = IF req.hasDays THEN req.recurrenceDays ELSE @]

UpdateEventCommit(i) ==
    /\ pending[i].op = "updateEvent"
    /\ pending' = RemoveAt(pending, i)
    /\ LET req == pending[i].req
           k == getEventById(req.id)
       IN  IF k = 0
           THEN /\ call' = Response("updateEvent", "500")
                /\ UNCHANGED events
           ELSE /\ events' = [events EXCEPT ![k] = UpdatedRow(@, req)]
                /\ call' = Response("updateEvent", "200")
    /\ UNCHANGED <<exceptions, nextId>>

\* ---- deleteEvent: the row goes, and ON DELETE CASCADE takes its exceptions
\* a slip in the foreign key: no cascade, the exceptions of the event stay
ExceptionsKept(id) == exceptions

\* the exception rows left by the cascade
ExceptionsAfterDelete(id) == SelectSeq(exceptions, LAMBDA x : x.eventId # id)

DeleteEvent(id) ==
    /\ IF getEventById(id) = 0
       THEN /\ call' = Response("deleteEvent", "500")
            /\ UNCHANGED <<events, exceptions>>
       ELSE /\ events' = RemoveAt(events, getEventById(id))
            /\ exceptions' = ExceptionsAfterDelete(id)
            /\ call' = Response("deleteEvent", "200")
    /\ UNCHANGED <<pending, nextId>>

\* ---- createEventException
ExceptionStatus(req) ==
    IF getEventById(req.eventId) = 0 THEN "404"
    ELSE IF ~events[getEventById(req.eventId)].isRecurring THEN "400"
    ELSE IF ~req.isDeleted /\ (req.newStartTime = Null \/ req.newEndTime = Null) THEN "400"
    ELSE IF ~req.isDeleted /\ req.newEndTime <= req.newStartTime THEN "400"
    ELSE IF ~isValidEventOccurrence(events[getEventById(req.eventId)], req.exceptionDate)
    THEN "400"
    ELSE "201"

CreateEventExceptionBegin(req) ==
    /\ IF ExceptionStatus(req) = "201"
       THEN /\ pending' = Append(pending, [op |-> "createEventException", req |-> req])
            /\ UNCHANGED call
       ELSE /\ call' = Response("createEventException", ExceptionStatus(req))
            /\ UNCHANGED pending
    /\ UNCHANGED <<events, exceptions, nextId>>

\* a slip in the stored row: the new times of the request are stored whatever
\* isDeleted says
StoredExceptionAsSent(id, req) ==
    ExceptionRow(id, req.eventId, req.exceptionDate, req.isDeleted,
                 req.newStartTime, req.newEndTime)

\* the row prisma.recurrenceException.create inserts: the new times are only
\* parsed, and so only stored, when isDeleted is false
StoredException(id, req) ==
    ExceptionRow(id, req.eventId, req.exceptionDate, req.isDeleted,
                 IF req.isDeleted THEN Null ELSE req.newStartTime,
                 IF req.isDeleted THEN Null ELSE req.newEndTime)

\* the foreign key and the unique index (eventId, exceptionDate) let the row in
ExceptionInsertable(req) ==
    /\ getEventById(req.eventId) # 0
    /\ \A i \in 1..Len(exceptions) :
           ~(exceptions[i].eventId = req.eventId
             /\ exceptions[i].exceptionDate = req.exceptionDate)

CreateEventExceptionCommit(i) ==
    /\ pending[i].op = "createEventException"
    /\ pending' = RemoveAt(pending, i)
    /\ IF ExceptionInsertable(pending[i].req)
       THEN /\ exceptions' = Append(exceptions, StoredException(nextId, pending[i].req))
            /\ nextId' = nextId + 1
            /\ call' = Response("createEventException", "201")
       ELSE /\ call' = Response("createEventException", "500")
            /\ UNCHANGED <<exceptions, nextId>>
    /\ UNCHANGED events

\* ---- one createEventException request handled from end to end on a given
\* store, nothing else in flight
GenExceptionRequests ==
    {[eventId |-> id, exceptionDate |-> d, isDeleted |-> x.isDeleted,
      newStartTime |-> x.newStartTime, newEndTime |-> x.newEndTime] :
        id \in 1..2, d \in {DayLen, 2 * DayLen, 2 * DayLen + 1, 3 * DayLen},
        x \in {[isDeleted |-> TRUE, newStartTime |-> 0, newEndTime |-> 1],
               [isDeleted |-> FALSE, newStartTime |-> 0, newEndTime |-> 1]}}

ExceptionOutcome(req) ==
    IF ExceptionStatus(req) # "201" THEN ExceptionStatus(req)
    ELSE IF ExceptionInsertable(req) THEN "201"
    ELSE "500"

CreateEventException ==
    /\ call = NoCall
    /\ \E req \in GenExceptionRequests :
        /\ call' = [op |-> "createEventException", req |-> req,
                    status |-> ExceptionOutcome(req)]
        /\ IF ExceptionOutcome(req) = "201"
           THEN /\ exceptions' = Append(exceptions, StoredException(nextId, req))
                /\ nextId' = nextId + 1
           ELSE UNCHANGED <<exceptions, nextId>>
    /\ UNCHANGED <<events, pending>>

GenNext ==
    GetEventsByDateRange \/ CheckEventConflicts \/ CreateEvent \/ CreateEventException

GenSpec == GenInit /\ [][GenNext]_vars

\* ---- the requests made
MaxRows == 3
MaxPending == 2

\* starts on whole seconds of day 0 and day 1
SysStarts == {0, DayLen + MsPerSec}

SysLengths == {0, 1, DayLen}

SysRecurrences ==
    {OneTime,
     [isRecurring |-> TRUE, recurrenceType |-> "DAILY", recurrenceDays |-> {}],
     [isRecurring |-> TRUE, recurrenceType |-> "WEEKLY", recurrenceDays |-> {}]}

\* the recurrences asked for with one interval only: the pattern NONE flagged
\* as recurring, and Weekly on Mondays
SysOtherRecurrences ==
    {[isRecurring |-> TRUE, recurrenceType |-> "NONE", recurrenceDays |-> {}],
     [isRecurring |-> TRUE, recurrenceType |-> "WEEKLY", recurrenceDays |-> {1}]}

CreateRequests ==
    {[userId |-> u, startTime |-> s, endTime |-> s + n,
      isRecurring |-> r.isRecurring, recurrenceType |-> r.recurrenceType,
      recurrenceDays |-> r.recurrenceDays] :
        u \in Users, s \in SysStarts, n \in SysLengths, r \in SysRecurrences}
    \cup {[userId |-> u, startTime |-> 0, endTime |-> 1,
           isRecurring |-> r.isRecurring, recurrenceType |-> r.recurrenceType,
           recurrenceDays |-> r.recurrenceDays] :
             u \in Users, r \in SysOtherRecurrences}

UpdateBody(startTime, endTime, hasRecurring, isRecurring, hasType, recurrenceType, hasDays, recurrenceDays) ==
    [startTime |-> startTime, endTime |-> endTime,
     hasRecurring |-> hasRecurring, isRecurring |-> isRecurring,
     hasType |-> hasType, recurrenceType |-> recurrenceType,
     hasDays |-> hasDays, recurrenceDays |-> recurrenceDays]

UpdateBodies ==
    {UpdateBody(DayLen + MsPerSec, Null, FALSE, FALSE, FALSE, "null", FALSE, {}),
     UpdateBody(Null, 1, FALSE, FALSE, FALSE, "null", FALSE, {}),
     UpdateBody(0, 1, FALSE, FALSE, FALSE, "null", FALSE, {}),
     UpdateBody(1, 1, FALSE, FALSE, FALSE, "null", FALSE, {}),
     UpdateBody(Null, Null, TRUE, TRUE, TRUE, "WEEKLY", FALSE, {}),
     UpdateBody(Null, Null, TRUE, TRUE, TRUE, "WEEKLY", TRUE, {}),
     UpdateBody(Null, Null, TRUE, TRUE, TRUE, "DAILY", FALSE, {})}

UpdateRequests ==
    {[id |-> id, startTime |-> b.startTime, endTime |-> b.endTime,
      hasRecurring |-> b.hasRecurring, isRecurring |-> b.isRecurring,
      hasType |-> b.hasType, recurrenceType |-> b.recurrenceType,
      hasDays |-> b.hasDays, recurrenceDays |-> b.recurrenceDays] :
        id \in 1..MaxRows, b \in UpdateBodies}

ExceptionRequests ==
    {[eventId |-> id, exceptionDate |-> d, isDeleted |-> x.isDeleted,
      newStartTime |-> x.newStartTime, newEndTime |-> x.newEndTime] :
        id \in 1..MaxRows, d \in {0, DayLen, DayLen + 1},
        x \in {[isDeleted |-> TRUE, newStartTime |-> 0, newEndTime |-> 1],
               [isDeleted |-> FALSE, newStartTime |-> 0, newEndTime |-> 1],
               [isDeleted |-> FALSE, newStartTime |-> 1, newEndTime |-> 1],
               [isDeleted |-> FALSE, newStartTime |-> Null, newEndTime |-> Null]}}

Init ==
    /\ events = <<>>
    /\ exceptions = <<>>
    /\ pending = <<>>
    /\ nextId = 1
    /\ call = NoCall

\* the ids given out, the rows inserted and the requests in flight stay bounded
CanBegin == Len(pending) < MaxPending /\ nextId + Len(pending) <= MaxRows

Next ==
    \/ \E req \in CreateRequests : CanBegin /\ CreateEventBegin(req)
    \/ \E req \in UpdateRequests : CanBegin /\ UpdateEventBegin(req)
    \/ \E req \in ExceptionRequests : CanBegin /\ CreateEventExceptionBegin(req)
    \/ \E id \in 1..MaxRows : DeleteEvent(id)
    \/ \E i \in 1..Len(pending) : CreateEventCommit(i)
    \/ \E i \in 1..Len(pending) : UpdateEventCommit(i)
    \/ \E i \in 1..Len(pending) : CreateEventExceptionCommit(i)

Spec == Init /\ [][Next]_vars

\* the same with one request at a time: none begins while another is in flight
SeqNext ==
    \/ \E req \in CreateRequests : pending = <<>> /\ CanBegin /\ CreateEventBegin(req)
    \/ \E req \in UpdateRequests : pending = <<>> /\ CanBegin /\ UpdateEventBegin(req)
    \/ \E req \in ExceptionRequests : pending = <<>> /\ CanBegin /\ CreateEventExceptionBegin(req)
    \/ \E id \in 1..MaxRows : pending = <<>> /\ DeleteEvent(id)
    \/ \E i \in 1..Len(pending) : CreateEventCommit(i)
    \/ \E i \in 1..Len(pending) : UpdateEventCommit(i)
    \/ \E i \in 1..Len(pending) : CreateEventExceptionCommit(i)

SeqSpec == Init /\ [][SeqNext]_vars

(***************************************************************************)
(* utils/recurrenceUtils.ts: isRecurrenceDay, getNextOccurrence and        *)
(* generateOccurrences.  They take the pattern 'None', 'Daily' or 'Weekly' *)
(* and the weekdays as a list.  Both set the time of day with              *)
(* setHours(getHours(), getMinutes(), 0, 0), which keeps the hour and the  *)
(* minute and drops the seconds and the milliseconds; a day of the model   *)
(* is one minute long.                                                     *)
(***************************************************************************)
MsPerMin == SecsPerDay * MsPerSec

\* getHours(), getMinutes() of t: the time of day in whole minutes
HoursMinutes(t) == ((t % DayLen) \div MsPerMin) * MsPerMin

isRecurrenceDay(date, recurrenceDays) == getDay(date) \in recurrenceDays

\* the 365 days getNextOccurrence looks ahead, scaled down to more than a week
NextScanDays == 8

\* the while loop of the Weekly branch: the first day after afterDate, within
\* the lookahead, whose weekday is listed, at the base's hour and minute
RECURSIVE NextWeeklyLoop(_, _, _, _, _)
NextWeeklyLoop(baseDate, recurrenceDays, afterDate, currentDate, maxEndDate) ==
    IF currentDate > maxEndDate THEN Null
    ELSE IF isRecurrenceDay(currentDate, recurrenceDays) /\ currentDate > afterDate
    THEN setHours(currentDate, HoursMinutes(baseDate))
    ELSE NextWeeklyLoop(baseDate, recurrenceDays, afterDate,
                        addDays(currentDate, 1), maxEndDate)

getNextOccurrence(baseDate, recurrenceType, recurrenceDays, afterDate) ==
    IF recurrenceType = "None" THEN Null
    ELSE IF recurrenceType = "Daily"
    THEN IF afterDate <= baseDate THEN baseDate
         ELSE addDays(startOfDay(afterDate), 1)
    ELSE IF recurrenceType = "Weekly"
    THEN IF recurrenceDays = {} THEN Null
         ELSE NextWeeklyLoop(baseDate, recurrenceDays, afterDate, afterDate,
                             addDays(afterDate, NextScanDays))
    ELSE Null

\* the while (checkFromDate < startRange) loop: day by day from the base up
\* to the range; for Weekly the last listed day met before the range becomes
\* currentDate.  It yields currentDate and the number of its iterations.
RECURSIVE CheckFromLoop(_, _, _, _, _, _, _)
CheckFromLoop(baseDate, recurrenceType, recurrenceDays, startRange, checkFromDate, currentDate, steps) ==
    IF ~(checkFromDate < startRange) THEN <<currentDate, steps>>
    ELSE LET next == addDays(checkFromDate, 1)
         IN  CheckFromLoop(baseDate, recurrenceType, recurrenceDays, startRange, next,
                           IF /\ recurrenceType = "Weekly"
                              /\ isRecurrenceDay(next, recurrenceDays)
                              /\ next > baseDate
                              /\ next < startRange
                           THEN next ELSE currentDate,
                           steps + 1)

\* currentDate before the main loop, with the iterations made to find it
UtilFirstDate(baseDate, recurrenceType, recurrenceDays, startRange) ==
    LET start == IF baseDate > startRange THEN baseDate ELSE startRange
        found == IF baseDate < startRange
                 THEN CheckFromLoop(baseDate, recurrenceType, recurrenceDays,
                                    startRange, baseDate, start, 0)
                 ELSE <<start, 0>>
    IN  <<setHours(found[1], HoursMinutes(baseDate)), found[2]>>

\* exceptions.find by year, month and day of the month
UtilFindException(excs, currentDate) ==
    LET hits == {i \in 1..Len(excs) : isSameDay(excs[i].exceptionDate, currentDate)}
    IN  IF hits = {} THEN 0 ELSE CHOOSE i \in hits : \A j \in hits : i <= j

UtilOccurrence(start, end, isException) ==
    [start |-> start, end |-> end, isException |-> isException]

\* what one iteration of the main loop pushes
UtilLoopBody(duration, recurrenceType, recurrenceDays, startRange, excs, currentDate) ==
    LET shouldIncludeDay == \/ recurrenceType = "Daily"
                            \/ /\ recurrenceType = "Weekly"
                               /\ isRecurrenceDay(currentDate, recurrenceDays)
        x == UtilFindException(excs, currentDate)
    IN  IF ~(shouldIncludeDay /\ currentDate >= startRange) THEN <<>>
        ELSE IF x = 0
        THEN <<UtilOccurrence(currentDate, currentDate + duration, FALSE)>>
        ELSE IF excs[x].isDeleted THEN <<>>
        ELSE <<UtilOccurrence(
                 IF excs[x].newStartTime # Null THEN excs[x].newStartTime ELSE currentDate,
                 IF excs[x].newEndTime # Null THEN excs[x].newEndTime
                 ELSE currentDate + duration,
                 TRUE)>>

RECURSIVE UtilMainLoop(_, _, _, _, _, _, _)
UtilMainLoop(duration, recurrenceType, recurrenceDays, startRange, endRange, excs, currentDate) ==
    IF currentDate > endRange THEN <<>>
    ELSE UtilLoopBody(duration, recurrenceType, recurrenceDays, startRange, excs, currentDate)
         \o UtilMainLoop(duration, recurrenceType, recurrenceDays, startRange, endRange,
                         excs, addDays(currentDate, 1))

generateOccurrences(baseDate, duration, recurrenceType, recurrenceDays, startRange, endRange, excs) ==
    IF recurrenceType = "None"
    THEN IF baseDate >= startRange /\ baseDate <= endRange
         THEN <<UtilOccurrence(baseDate, baseDate + duration, FALSE)>>
         ELSE <<>>
    ELSE UtilMainLoop(duration, recurrenceType, recurrenceDays, startRange, endRange, excs,
                      UtilFirstDate(baseDate, recurrenceType, recurrenceDays, startRange)[1])

\* the number of iterations of a loop that steps one day from currentDate
\* while currentDate <= lastDate
RECURSIVE DayLoopSteps(_, _)
DayLoopSteps(currentDate, lastDate) ==
    IF currentDate > lastDate THEN 0
    ELSE 1 + DayLoopSteps(NextDate(currentDate), lastDate)

\* the iterations generateOccurrences makes: those of the loop that looks for
\* currentDate and those of the main loop
generateOccurrencesSteps(baseDate, recurrenceType, recurrenceDays, startRange, endRange) ==
    IF recurrenceType = "None" THEN 0
    ELSE LET first == UtilFirstDate(baseDate, recurrenceType, recurrenceDays, startRange)
         IN  first[2] + DayLoopSteps(first[1], endRange)

\* the iterations of the while loop of generateRecurringEventOccurrences
generateRecurringEventOccurrencesSteps(event, startDate, endDate) ==
    IF event.recurrenceType = "NONE" \/ ~event.isRecurring THEN 0
    ELSE DayLoopSteps(FirstDate(event, startDate), MaxEndDate(endDate))

(***************************************************************************)
(* Calls of the two generators, of getNextOccurrence and of                *)
(* isValidEventOccurrence on one given event with its exceptions           *)
(***************************************************************************)
\* the pattern a caller passes to recurrenceUtils for a stored event
Pattern(event) ==
    IF ~event.isRecurring THEN "None"
    ELSE IF event.recurrenceType = "DAILY" THEN "Daily"
    ELSE IF event.recurrenceType = "WEEKLY" THEN "Weekly"
    ELSE "None"

\* exceptions as the column types allow them: those of the requests, and
\* exceptions that do not delete and lack one or both of the new times
UtilExceptionInputs ==
    GenExceptionInputs
    \cup {[exceptionDate |-> 2 * DayLen, isDeleted |-> FALSE,
           newStartTime |-> m[1], newEndTime |-> m[2]] :
            m \in {<<Null, Null>>, <<2 * DayLen + 1, Null>>, <<Null, 2 * DayLen + 1>>}}

\* two exceptions of day 2 at different instants, one of them without new times
UtilExceptionPairs ==
    {p \in UtilExceptionInputs \X UtilExceptionInputs :
        /\ p[1].exceptionDate # p[2].exceptionDate
        /\ ~p[1].isDeleted /\ ~p[2].isDeleted
        /\ (p[1].newEndTime = Null \/ p[2].newEndTime = Null)
        /\ MaxExceptions >= 2}

UtilExceptionSeqs ==
    {<<>>}
    \cup {<<ExceptionRow(1, 1, a.exceptionDate, a.isDeleted, a.newStartTime, a.newEndTime)>> :
            a \in UtilExceptionInputs}
    \cup {<<ExceptionRow(1, 1, p[1].exceptionDate, p[1].isDeleted, p[1].newStartTime, p[1].newEndTime),
            ExceptionRow(2, 1, p[2].exceptionDate, p[2].isDeleted, p[2].newStartTime, p[2].newEndTime)>> :
            p \in UtilExceptionPairs}

UtilInit ==
    /\ \E e \in GenEvents : events = <<e>>
    /\ exceptions \in UtilExceptionSeqs
    /\ pending = <<>>
    /\ nextId = Len(events) + Len(exceptions) + 1
    /\ call = NoCall

\* the ranges asked for: up to a week after the start of the event
UtilWindowStarts == 0..((DaysPerWeek + 1) * DayLen - 1)

UtilWindowLengths == {0, 1, DayLen, 2 * DayLen + 1}

\* both generators on the same event, exceptions and range
GenerateOccurrences ==
    /\ call = NoCall
    /\ \E startRange \in UtilWindowStarts, n \in UtilWindowLengths :
           LET event == events[1]
               endRange == startRange + n
           IN  call' = [op |-> "generateOccurrences",
                        startRange |-> startRange, endRange |-> endRange,
                        ret |-> generateOccurrences(
                                    event.startTime, event.endTime - event.startTime,
                                    Pattern(event), event.recurrenceDays,
                                    startRange, endRange, ExceptionsOf(event.id)),
                        steps |-> generateOccurrencesSteps(
                                      event.startTime, Pattern(event), event.recurrenceDays,
                                      startRange, endRange),
                        service |-> generateRecurringEventOccurrences(
                                        event, ExceptionsOf(event.id), startRange, endRange),
                        serviceSteps |-> generateRecurringEventOccurrencesSteps(
                                             event, startRange, endRange)]
    /\ UNCHANGED <<events, exceptions, pending, nextId>>

GetNextOccurrence ==
    /\ call = NoCall
    /\ \E afterDate \in GenWindowStarts :
           call' = [op |-> "getNextOccurrence", afterDate |-> afterDate,
                    ret |-> getNextOccurrence(events[1].startTime, Pattern(events[1]),
                                              events[1].recurrenceDays, afterDate)]
    /\ UNCHANGED <<events, exceptions, pending, nextId>>

IsValidEventOccurrence ==
    /\ call = NoCall
    /\ \E date \in GenWindowStarts :
           call' = [op |-> "isValidEventOccurrence", date |-> date,
                    ret |-> isValidEventOccurrence(events[1], date)]
    /\ UNCHANGED <<events, exceptions, pending, nextId>>

UtilNext == GenerateOccurrences \/ GetNextOccurrence \/ IsValidEventOccurrence

UtilSpec == UtilInit /\ [][UtilNext]_vars

(***************************************************************************)
(* Properties of getEventsByDateRange and of the expansion (GenSpec)       *)
(***************************************************************************)
Ranged == call.op = "getEventsByDateRange"

\* the event is among the rows the user filter of the call lets through
Asked(event) == call.userId = "any" \/ call.userId = event.userId

ReturnedOf(event) == SelectSeq(call.ret, LAMBDA o : o.originalEventId = event.id)

StoredEvents == {events[i] : i \in 1..Len(events)}

Repeats(event) == event.isRecurring /\ event.recurrenceType \in {"DAILY", "WEEKLY"}

\* the calendar days the rule of a Daily or Weekly event names
RuleDay(event, d) ==
    /\ d >= DayOf(event.startTime)
    /\ (event.recurrenceType = "WEEKLY" => (d % DaysPerWeek) \in event.recurrenceDays)

\* the days that can matter to the window of the call
DaysAround == (DayOf(call.startDate) - 1)..(DayOf(call.endDate) + 1)

InWindow(t) == t >= call.startDate /\ t <= call.endDate

\* the returned occurrences of the event are exactly one per day of days, the
\* one of day d starting at start[d] and lasting as long as the event
ExactlyPerDay(event, days, timeOfDay) ==
    LET ret == ReturnedOf(event)
    IN  /\ Len(ret) = Cardinality(days)
        /\ \A d \in days : \E i \in 1..Len(ret) :
               /\ ret[i].startTime = d * DayLen + timeOfDay
               /\ ret[i].endTime = ret[i].startTime + (event.endTime - event.startTime)
               /\ ~ret[i].isException

\* C6 as stated: a Daily or Weekly event without exceptions yields exactly one
\* occurrence for each day of its rule whose start instant, the day at the
\* event's start time of day (milliseconds included), lies in the window, and
\* no other occurrence.
C6_ExactTimeOfDay ==
    Ranged => \A event \in StoredEvents :
        (Repeats(event) /\ Asked(event) /\ ExceptionsOf(event.id) = <<>>) =>
            ExactlyPerDay(event,
                {d \in DaysAround : RuleDay(event, d)
                                    /\ InWindow(d * DayLen + (event.startTime % DayLen))},
                (event.startTime % DayLen))

\* C6 amended: the same with the start instant of day d being day d at the
\* event's hour, minute and second, the milliseconds set to zero.
C6_ExactOccurrences ==
    Ranged => \A event \in StoredEvents :
        (Repeats(event) /\ Asked(event) /\ ExceptionsOf(event.id) = <<>>) =>
            ExactlyPerDay(event,
                {d \in DaysAround : RuleDay(event, d)
                                    /\ InWindow(d * DayLen + HoursMinutesSeconds(event.startTime))},
                HoursMinutesSeconds(event.startTime))

\* a Monday-weekly event whose start is more than the lookback before the
\* window, returned twice over a window of more than a week
C6_Witness ==
    /\ Ranged
    /\ \E event \in StoredEvents :
        /\ event.recurrenceType = "WEEKLY" /\ event.isRecurring /\ Asked(event)
        /\ ExceptionsOf(event.id) = <<>>
        /\ event.startTime % MsPerSec # 0
        /\ Len(ReturnedOf(event)) = 2
        /\ DayOf(call.startDate) > DayOf(event.startTime) + ScanPadDays

\* C7: an event whose pattern is None (isRecurring false, or recurrenceType
\* NONE) is returned exactly once when its start instant lies in the window,
\* both ends included, and not at all otherwise.
C7_NoneOnceIffStartInWindow ==
    Ranged => \A event \in StoredEvents :
        ((~event.isRecurring \/ event.recurrenceType = "NONE") /\ Asked(event)) =>
            Len(ReturnedOf(event)) = (IF InWindow(event.startTime) THEN 1 ELSE 0)

\* C8: every returned occurrence starts inside the window, the occurrences
\* rescheduled by an exception included.
C8_WindowContainment ==
    Ranged => \A i \in 1..Len(call.ret) : InWindow(call.ret[i].startTime)

EventById(id) == CHOOSE event \in StoredEvents : event.id = id

\* C9: a returned occurrence that no exception overrides lasts as long as its
\* event.
C9_DurationPreserved ==
    Ranged => \A i \in 1..Len(call.ret) :
        ~call.ret[i].isException =>
            call.ret[i].endTime - call.ret[i].startTime
                = EventById(call.ret[i].originalEventId).endTime
                  - EventById(call.ret[i].originalEventId).startTime

\* a rule-computed occurrence of a later day, of an event of more than a day
\* that starts off the whole second
C9_Witness ==
    /\ Ranged
    /\ \E i \in 1..Len(call.ret) :
        /\ ~call.ret[i].isException /\ call.ret[i].isRecurring
        /\ call.ret[i].startTime > EventById(call.ret[i].originalEventId).endTime
        /\ EventById(call.ret[i].originalEventId).startTime % MsPerSec # 0
        /\ call.ret[i].endTime - call.ret[i].startTime > DayLen

\* the calendar day the rule put the occurrence on
NaturalDay(o) == IF Len(o.id) = 2 THEN DayOf(o.id[2]) ELSE DayOf(o.startTime)

\* C10: no two occurrences returned by one call share the event and the
\* natural calendar day, and the occurrence ids are pairwise distinct.
C10_NoDuplicates ==
    Ranged => \A i, j \in 1..Len(call.ret) :
        i # j =>
            /\ ~(call.ret[i].originalEventId = call.ret[j].originalEventId
                 /\ NaturalDay(call.ret[i]) = NaturalDay(call.ret[j]))
            /\ call.ret[i].id # call.ret[j].id

\* a call that returned three occurrences of one event and one of another
C10_Witness ==
    /\ Ranged
    /\ \E i, j, k, l \in 1..Len(call.ret) :
        /\ i < j /\ j < k
        /\ call.ret[i].originalEventId = call.ret[j].originalEventId
        /\ call.ret[j].originalEventId = call.ret[k].originalEventId
        /\ call.ret[l].originalEventId # call.ret[i].originalEventId

\* C11: the occurrences one call returns of one event are in non-decreasing
\* order of their returned start instant, the starts an exception replaced
\* included.
C11_OrderedByStart ==
    Ranged => \A event \in StoredEvents :
        LET ret == ReturnedOf(event)
        IN  \A i, j \in 1..Len(ret) :
                i < j => ret[i].startTime <= ret[j].startTime

\* the occurrences whose natural calendar day is not d
OffDay(occurrences, d) == SelectSeq(occurrences, LAMBDA o : NaturalDay(o) # d)

\* the exceptions of the event without the one at index k
ExceptionsWithout(event, k) ==
    LET excs == ExceptionsOf(event.id)
    IN  SubSeq(excs, 1, k - 1) \o SubSeq(excs, k + 1, Len(excs))

\* C12: with a stored exception of day d that deletes, no returned occurrence
\* of the event has the natural calendar day d, and the occurrences of every
\* other day are those returned without that exception.
C12_DeletedOmitted ==
    Ranged => \A event \in StoredEvents :
        (Repeats(event) /\ Asked(event)) =>
            LET excs == ExceptionsOf(event.id)
                ret == ReturnedOf(event)
            IN  \A k \in 1..Len(excs) :
                    excs[k].isDeleted =>
                        LET d == DayOf(excs[k].exceptionDate)
                        IN  /\ \A i \in 1..Len(ret) : NaturalDay(ret[i]) # d
                            /\ OffDay(ret, d)
                               = OffDay(generateRecurringEventOccurrences(
                                            event, ExceptionsWithout(event, k),
                                            call.startDate, call.endDate), d)

\* C13: a returned occurrence whose natural day carries a stored exception
\* that does not delete has that exception's new times, isException true and
\* that exception's id; a returned occurrence whose natural day carries no
\* exception has its rule-computed times and isException false.
C13_Rescheduled ==
    Ranged => \A event \in StoredEvents :
        (Repeats(event) /\ Asked(event)) =>
            LET excs == ExceptionsOf(event.id)
                ret == ReturnedOf(event)
            IN  \A i \in 1..Len(ret) :
                    /\ \A k \in 1..Len(excs) :
                           (~excs[k].isDeleted
                            /\ DayOf(excs[k].exceptionDate) = NaturalDay(ret[i])) =>
                               /\ ret[i].startTime = excs[k].newStartTime
                               /\ ret[i].endTime = excs[k].newEndTime
                               /\ ret[i].isException
                               /\ ret[i].exceptionId = excs[k].id
                    /\ (\A k \in 1..Len(excs) :
                            DayOf(excs[k].exceptionDate) # NaturalDay(ret[i])) =>
                               /\ ret[i].startTime = ret[i].id[2]
                               /\ ret[i].endTime
                                  = ret[i].id[2] + (event.endTime - event.startTime)
                               /\ ~ret[i].isException

(***************************************************************************)
(* Properties of the conflict check (GenSpec, PairSpec)                    *)
(***************************************************************************)
\* the days over which the occurrences of the stored events are listed
HorizonDays == 8

\* every occurrence of a stored event: its own interval when it does not
\* recur, the expansion of its rule with the exceptions applied when it does
AllOccurrences(event) ==
    IF ~event.isRecurring THEN <<mapToEventOccurrence(event)>>
    ELSE generateRecurringEventOccurrences(event, ExceptionsOf(event.id),
                                           0, HorizonDays * DayLen)

\* the occurrence shares more than an instant with [startTime, endTime]
Overlaps(o, startTime, endTime) == startTime < o.endTime /\ o.startTime < endTime

\* the events the check is about: those of the owner, the excluded one left out
Rivals(userId, excludeEventId) ==
    {event \in StoredEvents :
        event.userId = userId /\ (excludeEventId # 0 => event.id # excludeEventId)}

\* C2: checkEventConflicts returns true if and only if some event of the
\* owner, other than the excluded one, has an occurrence, of whatever
\* duration and wherever an exception moved it, that overlaps the candidate.
C2_ConflictIffOverlap ==
    call.op = "checkEventConflicts" =>
        (call.ret <=>
            \E event \in Rivals(call.userId, call.excludeEventId) :
                LET occurrences == AllOccurrences(event)
                IN  \E i \in 1..Len(occurrences) :
                        Overlaps(occurrences[i], call.startTime, call.endTime))

\* C3: on every four instants eventsConflict is true exactly when
\* aStart < bEnd and bStart < aEnd, as doTimeRangesOverlap is.
C3_ConflictIsOverlap ==
    call.op = "eventsConflict" =>
        /\ call.ret <=> (call.event1Start < call.event2End /\ call.event2Start < call.event1End)
        /\ call.ret <=> call.overlap

\* every occurrence of the owner's events has a positive length and shares
\* at most an end point with the candidate
TouchOnly(req) ==
    \A event \in Rivals(req.userId, 0) :
        LET occurrences == AllOccurrences(event)
        IN  \A i \in 1..Len(occurrences) :
                /\ occurrences[i].startTime < occurrences[i].endTime
                /\ ~Overlaps(occurrences[i], req.startTime, req.endTime)

\* an occurrence of such an event ends where the candidate starts, or starts
\* where it ends
TouchesEvent(event, req) ==
    LET occurrences == AllOccurrences(event)
    IN  \E i \in 1..Len(occurrences) :
            \/ occurrences[i].endTime = req.startTime
            \/ occurrences[i].startTime = req.endTime

\* C4: a createEvent whose interval starts exactly where an occurrence of the
\* owner ends, or ends exactly where one starts, and overlaps none, is not
\* rejected as a conflict, be the touched event one-time or recurring.
C4_BackToBackAccepted ==
    [][(/\ call = NoCall
        /\ call'.op = "createEvent"
        /\ ~CreateInvalid(call'.req)
        /\ TouchOnly(call'.req)
        /\ \E event \in Rivals(call'.req.userId, 0) : TouchesEvent(event, call'.req))
       => call'.status = "201"]_vars

\* an accepted request that touches a one-time event on one side and an
\* occurrence of a recurring event on the other
C4_Witness ==
    /\ call.op = "createEvent" /\ call.status = "201"
    /\ \E a, b \in {event \in StoredEvents : event.id # nextId - 1} :
        /\ a.userId = call.req.userId /\ b.userId = call.req.userId
        /\ ~a.isRecurring /\ Repeats(b)
        /\ TouchesEvent(a, call.req) /\ TouchesEvent(b, call.req)

\* the natural days of the occurrences of the event that overlap the candidate
HitDays(event, startTime, endTime) ==
    LET occurrences == AllOccurrences(event)
    IN  {NaturalDay(occurrences[i]) :
            i \in {j \in 1..Len(occurrences) :
                     Overlaps(occurrences[j], startTime, endTime)}}

\* of all the occurrences of the owner's events, the candidate overlaps the
\* one of day d of the event and no other
OverlapsOnly(event, d, startTime, endTime) ==
    /\ event.isRecurring
    /\ HitDays(event, startTime, endTime) = {d}
    /\ \A other \in Rivals(event.userId, event.id) :
           HitDays(other, startTime, endTime) = {}

\* C14: when a deletion exception of day d is stored for a recurring event,
\* every candidate interval that overlapped the occurrence of day d of that
\* event and nothing else was a conflict before and is none after.
C14_DeletionRemovesConflict ==
    [][(/\ call = NoCall
        /\ call'.op = "createEventException"
        /\ call'.status = "201"
        /\ call'.req.isDeleted)
       => \A event \in StoredEvents, s \in CallStarts, n \in CallLengths :
              (/\ event.id = call'.req.eventId
               /\ OverlapsOnly(event, DayOf(call'.req.exceptionDate), s, s + n))
              => /\ checkEventConflicts(event.userId, s, s + n, 0)
                 /\ ~(checkEventConflicts(event.userId, s, s + n, 0))']_vars

(***************************************************************************)
(* Properties of the request handlers (Spec, SeqSpec)                      *)
(***************************************************************************)
\* some occurrence of one event shares more than an instant with some
\* occurrence of the other
DoubleBooked(a, b) ==
    LET oa == AllOccurrences(a)
        ob == AllOccurrences(b)
    IN  \E i \in 1..Len(oa), j \in 1..Len(ob) :
            Overlaps(oa[i], ob[j].startTime, ob[j].endTime)

\* C1: after any sequence of createEvent, updateEvent and
\* createEventException requests, handled one after the other, no two
\* occurrences of two different events of one owner overlap.
C1_NoDoubleBooking ==
    pending = <<>> =>
        \A a, b \in StoredEvents :
            (a.id # b.id /\ a.userId = b.userId) => ~DoubleBooked(a, b)

\* the candidate overlaps an occurrence of the event and none of the owner's
\* other events
OverlapsOnlyOwn(event, startTime, endTime) ==
    /\ HitDays(event, startTime, endTime) # {}
    /\ \A other \in Rivals(event.userId, event.id) :
           HitDays(other, startTime, endTime) = {}

\* C15: an update of the times of a stored event whose checked interval (new
\* start or existing start, new end or existing end) overlaps only the
\* event's own occurrences is accepted.
C15_OwnOccurrencesNoConflict ==
    \A req \in UpdateRequests :
        (/\ getEventById(req.id) # 0
         /\ ~UpdateInvalid(req)
         /\ (req.startTime # Null \/ req.endTime # Null)
         /\ OverlapsOnlyOwn(events[getEventById(req.id)],
                            UpdateStart(events[getEventById(req.id)], req),
                            UpdateEnd(events[getEventById(req.id)], req)))
        => UpdateStatus(req) = "200"

\* the rule of the event generates an occurrence on calendar day d
RuleGenerates(event, d) == Repeats(event) /\ RuleDay(event, d)

\* C16: an exception is stored only for a calendar day on which the rule of
\* its event generates an occurrence: not for a day before the start day, for
\* a weekday outside recurrenceDays, or for an event that does not repeat.
C16_InvalidOccurrenceRejected ==
    [][\A i \in 1..Len(pending) :
          (/\ pending[i].op = "createEventException"
           /\ pending' = RemoveAt(pending, i)
           /\ exceptions' # exceptions)
          => /\ getEventById(pending[i].req.eventId) # 0
             /\ RuleGenerates(events[getEventById(pending[i].req.eventId)],
                              DayOf(pending[i].req.exceptionDate))]_vars

\* C17: no event has two stored exceptions whose exceptionDate falls on the
\* same calendar day.
C17_OneExceptionPerDay ==
    \A i, j \in 1..Len(exceptions) :
        (i # j /\ exceptions[i].eventId = exceptions[j].eventId)
            => ~isSameDay(exceptions[i].exceptionDate, exceptions[j].exceptionDate)

\* C18: a stored exception that does not delete carries both new times, the
\* end after the start; one that deletes carries neither.
C18_ExceptionTimes ==
    \A i \in 1..Len(exceptions) :
        IF exceptions[i].isDeleted
        THEN exceptions[i].newStartTime = Null /\ exceptions[i].newEndTime = Null
        ELSE /\ exceptions[i].newStartTime # Null
             /\ exceptions[i].newEndTime # Null
             /\ exceptions[i].newEndTime > exceptions[i].newStartTime

\* an event with a deleting and a rescheduling exception, both stored by
\* requests that carried new times
C18_Witness ==
    /\ pending = <<>>
    /\ \E i, j \in 1..Len(exceptions) :
        /\ exceptions[i].isDeleted /\ ~exceptions[j].isDeleted
        /\ exceptions[i].eventId = exceptions[j].eventId
    /\ \A req \in ExceptionRequests : req.isDeleted => req.newStartTime # Null

\* C19: every stored event ends strictly after it starts.
C19_EndAfterStart ==
    \A i \in 1..Len(events) : events[i].endTime > events[i].startTime

\* C20: every stored event whose pattern is Weekly has a non-empty set of
\* weekdays.
C20_WeeklyHasDays ==
    \A i \in 1..Len(events) :
        (events[i].isRecurring /\ events[i].recurrenceType = "WEEKLY")
            => events[i].recurrenceDays # {}

\* C22: a step that deletes an event leaves no stored exception that refers
\* to it, and leaves every other event and every exception of another event
\* as they were, in their order.
C22_DeleteCascades ==
    [][\A k \in 1..Len(events) :
          (Len(events') < Len(events) /\ events' = RemoveAt(events, k))
          => /\ \A i \in 1..Len(exceptions') : exceptions'[i].eventId # events[k].id
             /\ \A i \in 1..Len(exceptions') :
                    \E e \in StoredEvents' : exceptions'[i].eventId = e.id
             /\ exceptions'
                = SelectSeq(exceptions, LAMBDA x : \E e \in StoredEvents' : x.eventId = e.id)]_vars

\* after a delete: an event that stays with its exception, the ids above
\* both having gone to a deleted event and to its exception
C22_Witness ==
    /\ call = Response("deleteEvent", "200")
    /\ Len(events) = 1 /\ Len(exceptions) = 1
    /\ exceptions[1].eventId = events[1].id

\* C5: nothing is checked between the conflict check and the insert: every
\* createEvent whose check has passed is stored when its insert runs, also
\* when a request that overlaps it was stored since its check.
C5_CheckedCreateIsStored ==
    [][\A i \in 1..Len(pending) :
          (pending[i].op = "createEvent" /\ pending' = RemoveAt(pending, i))
              => events' = Append(events, CreatedRow(nextId, pending[i].req))]_vars

\* two one-time events of one owner, both stored, whose intervals overlap:
\* both checks were made before either insert
C5_Witness ==
    /\ pending = <<>>
    /\ \E a, b \in StoredEvents :
        /\ a.id # b.id /\ a.userId = b.userId
        /\ ~a.isRecurring /\ ~b.isRecurring
        /\ a.startTime < a.endTime /\ b.startTime < b.endTime
        /\ a.startTime < b.endTime /\ b.startTime < a.endTime
        /\ Len(exceptions) = 0

(***************************************************************************)
(* Properties of the generators and of the rule evaluators (UtilSpec)      *)
(***************************************************************************)
Generated == call.op = "generateOccurrences"

\* C21: a Weekly event whose recurrenceDays is empty yields no occurrence for
\* any window, in either generator, and the scan ends.
C21_WeeklyWithoutDays ==
    Generated =>
        ((events[1].isRecurring /\ events[1].recurrenceType = "WEEKLY"
          /\ events[1].recurrenceDays = {})
            => /\ call.service = <<>>
               /\ call.ret = <<>>
               /\ call.serviceSteps >= 0 /\ call.steps >= 0)

\* a window of more than a day that starts after the start of such an event,
\* scanned day by day to its end
C21_Witness ==
    /\ Generated
    /\ events[1].isRecurring /\ events[1].recurrenceType = "WEEKLY"
    /\ events[1].recurrenceDays = {}
    /\ call.startRange > events[1].startTime
    /\ call.endRange >= call.startRange + DayLen
    /\ call.serviceSteps > 2 /\ call.steps > 2
    /\ call.service = <<>> /\ call.ret = <<>>

\* the whole days in the range of the call
RangeDays == (call.endRange - call.startRange) \div DayLen

\* the iterations allowed: the days of the range, the lookback, the lookahead
\* and one
ScanAllowance == RangeDays + 2 * ScanPadDays + 1

\* the bound for generateRecurringEventOccurrences alone
ServiceScanBounded == Generated => call.serviceSteps <= ScanAllowance

\* C24: each generator makes at most (days of the range) + 2 * 365 + 1 loop
\* iterations, however long before the range the event started.
C24_BoundedScan ==
    Generated => (call.serviceSteps <= ScanAllowance /\ call.steps <= ScanAllowance)

\* the occurrence instants of the rule of the event that can follow
\* afterDate: the days of the rule at the time of day of the event
RuleInstantsAfter(event, afterDate) ==
    LET days == {d \in DayOf(event.startTime)
                       ..(DayOf(event.startTime) + DayOf(afterDate) + DaysPerWeek + 1) :
                   RuleDay(event, d)}
    IN  {t \in {d * DayLen + (event.startTime % DayLen) : d \in days} : t > afterDate}

EarliestOf(instants) == CHOOSE t \in instants : \A u \in instants : t <= u

\* C25: for a Daily rule, or a Weekly rule with weekdays, getNextOccurrence
\* returns the earliest occurrence instant of the rule strictly after
\* afterDate; for the pattern None it returns null.
C25_NextOccurrence ==
    call.op = "getNextOccurrence" =>
        IF Pattern(events[1]) = "None" THEN call.ret = Null
        ELSE (events[1].recurrenceType = "WEEKLY" => events[1].recurrenceDays # {})
                => call.ret = EarliestOf(RuleInstantsAfter(events[1], call.afterDate))

InRange(t) == t >= call.startRange /\ t <= call.endRange

\* C26: the range test is made on the rule-computed start, before the
\* exception is applied: every occurrence either generator returns has its
\* natural start inside the range, wherever an exception moved it.
C26_NaturalStartDecides ==
    Generated =>
        /\ \A i \in 1..Len(call.service) : InRange(call.service[i].id[2])
        /\ \A i \in 1..Len(call.ret) :
               IF call.ret[i].isException
               THEN \E k \in 1..Len(exceptions) :
                        /\ ~exceptions[k].isDeleted
                        /\ InRange(setHours(exceptions[k].exceptionDate,
                                            HoursMinutes(events[1].startTime)))
               ELSE InRange(call.ret[i].start)

\* an occurrence that an exception moved into the range, its natural start
\* outside of it, returned by neither generator
C26_Witness ==
    /\ Generated
    /\ Repeats(events[1])
    /\ \E k \in 1..Len(exceptions) :
        /\ ~exceptions[k].isDeleted
        /\ exceptions[k].newStartTime # Null /\ exceptions[k].newEndTime # Null
        /\ InRange(exceptions[k].newStartTime)
        /\ RuleDay(events[1], DayOf(exceptions[k].exceptionDate))
        /\ ~InRange(OccurrenceDate(events[1], exceptions[k].exceptionDate))
    /\ \A i \in 1..Len(call.service) : ~call.service[i].isException
    /\ \A i \in 1..Len(call.ret) : ~call.ret[i].isException

\* the exception that find returns for day d does not delete and lacks a new time
IncompleteOn(d) ==
    LET x == FindException(exceptions, d * DayLen)
    IN  /\ x # 0
        /\ ~exceptions[x].isDeleted
        /\ (exceptions[x].newStartTime = Null \/ exceptions[x].newEndTime = Null)

\* C27: when the exception matching a day does not delete and lacks
\* newStartTime or newEndTime, generateRecurringEventOccurrences returns no
\* occurrence of that day, neither the rule-computed one nor an overridden one.
C27_IncompleteExceptionDrops ==
    Generated =>
        \A d \in 0..(DayOf(call.endRange) + 1) :
            IncompleteOn(d) =>
                \A i \in 1..Len(call.service) : NaturalDay(call.service[i]) # d

\* a range over the day of such an exception and the day after it, of which
\* only the day after is returned
C27_Witness ==
    /\ Generated
    /\ events[1].recurrenceType = "DAILY" /\ events[1].isRecurring
    /\ \E d \in 0..DayOf(call.endRange) :
        /\ IncompleteOn(d)
        /\ exceptions[FindException(exceptions, d * DayLen)].newStartTime # Null
        /\ InRange(OccurrenceDate(events[1], d * DayLen))
        /\ \E i \in 1..Len(call.service) : NaturalDay(call.service[i]) = d + 1
        /\ \A i \in 1..Len(call.service) : NaturalDay(call.service[i]) # d

Evaluated == call.op = "isValidEventOccurrence"

\* what generation yields for the event over the day of date when no exception
\* is applied: the branch of getEventsByDateRange for the event
GeneratedOn(event, date) ==
    LET startDate == startOfDay(date)
        endDate == startOfDay(date) + DayLen - 1
        occs == IF ~event.isRecurring
                THEN IF NonRecurringInRange(event, startDate, endDate)
                     THEN <<mapToEventOccurrence(event)>> ELSE <<>>
                ELSE generateRecurringEventOccurrences(event, <<>>, startDate, endDate)
    IN  \E i \in 1..Len(occs) : NaturalDay(occs[i]) = DayOf(date)

\* C28: isValidEventOccurrence(event, d) is true exactly when generation over
\* a window covering day d yields, with no exception applied, an occurrence
\* whose natural calendar day is d.
C28_EvaluatorAgrees ==
    Evaluated => (call.ret <=> GeneratedOn(events[1], call.date))

\* the same agreement for the events that are not isRecurring with
\* recurrenceType NONE
C28_AgreesButNone ==
    (Evaluated /\ ~(events[1].isRecurring /\ events[1].recurrenceType = "NONE"))
        => (call.ret <=> GeneratedOn(events[1], call.date))

\* the (start, end, isException) triples of what each generator returned
UtilTriples == [i \in 1..Len(call.ret) |->
                   <<call.ret[i].start, call.ret[i].end, call.ret[i].isException>>]

ServiceTriples == [i \in 1..Len(call.service) |->
                      <<call.service[i].startTime, call.service[i].endTime,
                        call.service[i].isException>>]

\* C29: for the same event, exceptions and window, generateOccurrences and
\* generateRecurringEventOccurrences return the same sequence of
\* (start, end, isException) triples.
C29_GeneratorsEquivalent ==
    Generated => UtilTriples = ServiceTriples

\* the same equivalence for a Daily or Weekly event that starts at midnight
\* and has no exception
C29_EquivalentAtMidnight ==
    (Generated /\ Repeats(events[1]) /\ exceptions = <<>>
        /\ events[1].startTime = startOfDay(events[1].startTime))
        => UtilTriples = ServiceTriples

\* the same equivalence for Daily and Weekly events only
C29_EquivalentWhenRepeating ==
    (Generated /\ Repeats(events[1])) => UtilTriples = ServiceTriples

\* after the step the last answer is an error of createEvent or updateEvent:
\* the step is that rejection, or it answers nothing (the answer stays)
Rejected ==
    /\ call'.op \in {"createEvent", "updateEvent"}
    /\ call'.status \notin {"200", "201"}

\* C30: a step in which createEvent or updateEvent fails (the conflict error,
\* or the event to update does not exist) creates, modifies and deletes no
\* event and no exception.
C30_RejectedWriteChangesNothing ==
    [][Rejected => (events' = events /\ exceptions' = exceptions)]_vars

\* after a createEvent refused for a conflict, with an event and an exception
\* in the store
C30_Witness ==
    /\ call = Response("createEvent", "500")
    /\ Len(events) >= 1 /\ Len(exceptions) >= 1
    /\ pending = <<>>

====
